---------------------------- MODULE Spec2Model ----------------------------
(***************************************************************************)
(* VoxAI Studio TTS: the credit ledger server (express handlers of         *)
(* src/server.ts, lines 1-227) and the generation client (the App          *)
(* component of the same file, lines 308-633).                             *)
(*                                                                         *)
(* Two specifications share the variables:                                 *)
(*   SpecLedger  the HTTP surface driven by arbitrary requests;            *)
(*   Spec        one browser App talking to that server, with a second     *)
(*               client deducting from the same account.                   *)
(***************************************************************************)
EXTENDS Integers, Sequences, FiniteSets, TLC

(***************************************************************************)
(* JavaScript values.  Numbers, Infinity, NaN, null and undefined are      *)
(* tagged records so that they can be compared with each other.            *)
(***************************************************************************)
Num(n) == [t |-> "num", v |-> n]
Infinity == [t |-> "inf", v |-> 0]
NaN == [t |-> "nan", v |-> 0]
JsNull == [t |-> "null", v |-> 0]
Undefined == [t |-> "undef", v |-> 0]

\* ToNumber, as applied by the relational and arithmetic operators:
\* null -> 0, undefined -> NaN.
ToNumber(x) ==
  CASE x.t = "null" -> Num(0)
    [] x.t = "undef" -> NaN
    [] OTHER -> x

\* a < b on JavaScript values: false as soon as one side is NaN.
JsLt(a, b) ==
  LET x == ToNumber(a)
      y == ToNumber(b)
  IN  IF x.t = "nan" \/ y.t = "nan" THEN FALSE
      ELSE IF x.t = "inf" THEN FALSE
      ELSE IF y.t = "inf" THEN TRUE
      ELSE x.v < y.v

\* a - b on JavaScript values (b is never Infinity here: a JSON body of the
\* model carries a finite number, null or nothing).
JsSub(a, b) ==
  LET x == ToNumber(a)
      y == ToNumber(b)
  IN  IF x.t = "nan" \/ y.t = "nan" THEN NaN
      ELSE IF x.t = "inf" THEN IF y.t = "inf" THEN NaN ELSE Infinity
      ELSE Num(x.v - y.v)

\* JSON.stringify of a number: Infinity and NaN are written as null.
JsonNumber(x) == IF x.t \in {"inf", "nan"} THEN JsNull ELSE x

(***************************************************************************)
(* The ledger.                                                             *)
(***************************************************************************)
SPECIAL_EMAILS ==
  {"amliyarsachin248@gmail.com", "amaliyarmanu5@gmail.com",
   "sachinamliyar15@gmail.com", "robotlinkan@gmail.com"}

InitialCredits == 20000

\* The identities that take part in a run of the model.
Identities == {"a@x.com", "b@x.com", "robotlinkan@gmail.com"}

\* Lines 82-87 and 150-155: the account created on first sight.
NewAccount(email) ==
  LET isSpecial == email \in SPECIAL_EMAILS
  IN  [email |-> email,
       credits |-> IF isSpecial THEN Infinity ELSE Num(InitialCredits),
       isPremium |-> isSpecial]

(***************************************************************************)
(* Cookies and response bodies.  An absent cookie is the empty string (or  *)
(* NoToken); an absent field of a JSON body is its falsy default, with     *)
(* credits undefined.                                                      *)
(***************************************************************************)
NoToken == [sig |-> "none", email |-> ""]
SignedToken(email) == [sig |-> "ok", email |-> email]
\* A token whose signature or expiry does not verify.
BadToken(email) == [sig |-> "bad", email |-> email]

NoCookies == [mock_session |-> "", session |-> NoToken]

ErrorBody(msg) ==
  [email |-> "", credits |-> Undefined, isPremium |-> FALSE, error |-> msg]

\* res.json(user): the account as JSON.stringify writes it.
AccountBody(acct) ==
  [email |-> acct.email, credits |-> JsonNumber(acct.credits),
   isPremium |-> acct.isPremium, error |-> ""]

NoBody == ErrorBody("")


(***************************************************************************)
(* The client: texts.  A text is a sequence of runs <<character, count>>,  *)
(* so that a text of 20001 characters stays small.                         *)
(***************************************************************************)
MAX_CHARS == 20000

RECURSIVE TextLen(_)
\* processingText.length
TextLen(t) == IF t = <<>> THEN 0 ELSE t[1][2] + TextLen(Tail(t))

IsWhitespace(c) == c \in {" ", "\n", "\t"}

RECURSIVE TrimStart(_)
TrimStart(t) ==
  IF t # <<>> /\ IsWhitespace(t[1][1]) THEN TrimStart(Tail(t)) ELSE t

RECURSIVE TrimEnd(_)
TrimEnd(t) ==
  IF t # <<>> /\ IsWhitespace(t[Len(t)][1])
    THEN TrimEnd(SubSeq(t, 1, Len(t) - 1))
    ELSE t

\* String.prototype.trim
Trim(t) == TrimEnd(TrimStart(t))

\* Mutant: emptiness tested without trim().
IsBlankMutC10(t) == t = <<>>

\* !processingText.trim(), lines 480 and 493
IsBlank(t) == Trim(t) = <<>>

RECURSIVE Substring(_, _)
\* t.substring(0, n)
Substring(t, n) ==
  IF t = <<>> \/ n <= 0 THEN <<>>
  ELSE IF t[1][2] <= n THEN <<t[1]>> \o Substring(Tail(t), n - t[1][2])
  ELSE <<<<t[1][1], n>>>>

\* Line 569: the preview kept in the history.
PreviewText(t) ==
  IF TextLen(t) > 80 THEN Substring(t, 80) \o <<<<".", 3>>>> ELSE t

\* The texts typed by the user or returned by the language model: none,
\* whitespace only, 500 characters with a blank at either end, one character
\* over the ceiling.
EmptyText == <<>>
BlankText == <<<<" ", 3>>>>
Text500 == <<<<" ", 1>>, <<"a", 498>>, <<" ", 1>>>>
LongText == <<<<"a", 20001>>>>
Texts == {EmptyText, BlankText, Text500, LongText}
\* What the text field holds when a voice-changer or dubbing run is started.
TextAside == <<<<"b", 40>>>>

(***************************************************************************)
(* The client: createWavUrl, lines 258-289.  The container is its 44 header *)
(* bytes, the length of its buffer and the number of payload bytes copied  *)
(* behind the header.  A 32-bit field is written from two 16-bit halves,   *)
(* so that no intermediate value passes 2^31.                              *)
(***************************************************************************)
\* view.setUint16(offset, x, true)
U16LE(x) == <<x % 256, (x \div 256) % 256>>

\* view.setUint32(offset, x, true) for 0 <= x < 2^31
U32LE(x) == U16LE(x % 65536) \o U16LE((x \div 65536) % 65536)

\* view.setUint32(offset, x * 2, true) for 0 <= x < 2^31: x * 2 modulo 2^32
U32LETwice(x) ==
  LET lo == (x % 65536) * 2
      hi == (x \div 65536) * 2 + lo \div 65536
  IN  U16LE(lo % 65536) \o U16LE(hi % 65536)

\* writeString of 'RIFF', 'WAVE', 'fmt ' and 'data': the char codes
TagRIFF == <<82, 73, 70, 70>>
TagWAVE == <<87, 65, 86, 69>>
TagFmt == <<102, 109, 116, 32>>
TagData == <<100, 97, 116, 97>>

\* Mutant: the RIFF size counts the whole buffer.
RiffSizeMutC17(len) == 44 + len

\* Line 273: the RIFF chunk size for len payload bytes
RiffSize(len) == 36 + len

\* Lines 272-285: the header for len payload bytes at sampleRate
WavHeader(len, sampleRate) ==
  TagRIFF \o U32LE(RiffSize(len)) \o TagWAVE \o TagFmt \o U32LE(16)
    \o U16LE(1) \o U16LE(1) \o U32LE(sampleRate) \o U32LETwice(sampleRate)
    \o U16LE(2) \o U16LE(16) \o TagData \o U32LE(len)

\* createWavUrl(base64, sampleRate), atob(base64) being len bytes long
CreateWav(len, sampleRate) ==
  [header |-> WavHeader(len, sampleRate), byteLength |-> 44 + len,
   pcmData |-> len, len |-> len, sampleRate |-> sampleRate]

\* No container has been built yet.
NoWav == [header |-> <<>>, byteLength |-> 0, pcmData |-> 0, len |-> 0,
          sampleRate |-> 0]

(***************************************************************************)
(* The client: errors.  An Error object is its name and its message, the   *)
(* message a sequence of characters so that includes() is computed.        *)
(***************************************************************************)
\* String.prototype.includes, case-sensitive
Includes(s, p) ==
  \E i \in 0..(Len(s) - Len(p)) : SubSeq(s, i + 1, i + Len(p)) = p

MsgAbortError ==
  <<"A", "b", "o", "r", "t", "E", "r", "r", "o", "r">>
MsgEmptyResponse ==
  <<"T", "h", "e", " ", "A", "I", " ", "m", "o", "d", "e", "l", " ", "r",
    "e", "t", "u", "r", "n", "e", "d", " ", "a", "n", " ", "e", "m", "p",
    "t", "y", " ", "r", "e", "s", "p", "o", "n", "s", "e", ".", " ", "P",
    "l", "e", "a", "s", "e", " ", "t", "r", "y", " ", "a", "g", "a", "i",
    "n", " ", "w", "i", "t", "h", " ", "s", "h", "o", "r", "t", "e", "r",
    " ", "t", "e", "x", "t", " ", "o", "r", " ", "a", " ", "d", "i", "f",
    "f", "e", "r", "e", "n", "t", " ", "v", "o", "i", "c", "e", ".">>
MsgNoSpeech ==
  <<"C", "o", "u", "l", "d", " ", "n", "o", "t", " ", "e", "x", "t", "r",
    "a", "c", "t", " ", "s", "p", "e", "e", "c", "h", " ", "f", "r", "o",
    "m", " ", "a", "u", "d", "i", "o", ".">>
MsgQuota ==
  <<"4", "2", "9", " ", "R", "E", "S", "O", "U", "R", "C", "E", "_", "E",
    "X", "H", "A", "U", "S", "T", "E", "D">>
MsgNetwork ==
  <<"f", "e", "t", "c", "h", " ", "f", "a", "i", "l", "e", "d">>

\* new Error(message): the name of a plain Error is "Error".
NewError(message) == [name |-> "Error", message |-> message]

\* Line 544 and 547: what the abort listener rejects with.
AbortRejection == NewError(MsgAbortError)

\* What the model capability can throw: a quota signal, a network failure.
UpstreamErrors == {NewError(MsgQuota), [name |-> "TypeError", message |-> MsgNetwork]}

\* The user-visible error state: a fixed text (kind) and, where the code
\* appends or shows err.message, that message.
ErrNull == [kind |-> "null", msg |-> <<>>]
ErrText(kind) == [kind |-> kind, msg |-> <<>>]
ErrMessage(kind, msg) == [kind |-> kind, msg |-> msg]

\* Line 588: the test that is meant to recognise a cancellation.
IsAbortError(err) ==
  err.name = "AbortError" \/ Includes(err.message, <<"a", "b", "o", "r", "t">>)

\* Line 593
IsQuotaError(err) ==
  /\ err.message # <<>>
  /\ \/ Includes(err.message, <<"4", "2", "9">>)
     \/ Includes(err.message,
          <<"R", "E", "S", "O", "U", "R", "C", "E", "_",
            "E", "X", "H", "A", "U", "S", "T", "E", "D">>)
     \/ Includes(err.message, <<"q", "u", "o", "t", "a">>)

\* Lines 593-597: the error the catch block sets for err.
Surfaced(err) ==
  IF IsQuotaError(err) THEN ErrText("API Quota Exceeded (429)")
  ELSE IF err.message # <<>> THEN ErrMessage("err.message", err.message)
  ELSE ErrText("Connection failed.")

\* Lines 587-597: the error state after the catch block, from cur.
CatchError(err, cur) == IF IsAbortError(err) THEN cur ELSE Surfaced(err)

(***************************************************************************)
(* Bounds of the model.                                                    *)
(***************************************************************************)
\* Requests the ledger handles in one behaviour of SpecLedger.
MaxRequests == 4

\* The amounts a deduct body carries: numbers (negative and zero included),
\* null, and no amount at all ({} parses to amount === undefined).
Amounts ==
  {Num(-500), Num(0), Num(500), Num(19900), Num(20000), JsNull, Undefined}

VARIABLES
  usersDb,             \* line 16: email -> account, defined on the keys present
  providerConfigured,  \* line 12: GOOGLE_CLIENT_ID is set
  issued,              \* emails for which /auth/callback has signed a session token
  req,                 \* the request the server handled last
  resp,                \* the response it gave
  nreq,                \* requests handled so far
  deducted,            \* per email: sum of the amounts of its successful deducts
  browserCookies,      \* the cookie jar of the browser
  user,                \* line 330: the account as the client knows it
  isGenerating,        \* line 311
  loadingStatus,       \* line 329 ("" for null)
  error,               \* line 315
  showMonetization,    \* line 316
  audioUrl,            \* line 312 (0 for null, else the run that produced it)
  history,             \* line 313, newest first
  abortControllerRef,  \* line 334 (0 for null, else the run whose controller it is)
  started,             \* calls of generateSpeech so far
  runs,                \* the calls of generateSpeech, by number
  net,                 \* the fetches of the client that are in flight
  wav,                 \* the container createWavUrl built last
  cancelClicked        \* the model calls (run, await) outstanding at a click on cancel

ledgerVars == <<usersDb, providerConfigured, issued, req, resp, nreq, deducted>>

appVars ==
  <<browserCookies, user, isGenerating, loadingStatus, error, showMonetization,
    audioUrl, history, abortControllerRef, started, runs, net>>

NoRequest == [op |-> "none", cookies |-> NoCookies, amount |-> Undefined]
NoResponse == [status |-> 0, body |-> NoBody]

(***************************************************************************)
(* Session resolution.                                                     *)
(***************************************************************************)
\* jwt.verify(token, JWT_SECRET): only a token this server signed verifies.
JwtVerifies(token) == token.sig = "ok"

\* Mutant: the session token is consulted before the preview marker.
ResolveMutC12(cookies) ==
  IF cookies.session # NoToken
    THEN IF JwtVerifies(cookies.session)
           THEN [ok |-> TRUE, email |-> cookies.session.email, error |-> ""]
           ELSE [ok |-> FALSE, email |-> "", error |-> "Invalid token"]
    ELSE IF cookies.mock_session # ""
    THEN [ok |-> TRUE, email |-> cookies.mock_session, error |-> ""]
    ELSE [ok |-> FALSE, email |-> "", error |-> "Unauthorized"]

\* Lines 182-194 (and 160-170): the email a request resolves to, or the 401.
Resolve(cookies) ==
  IF cookies.mock_session # ""
    THEN [ok |-> TRUE, email |-> cookies.mock_session, error |-> ""]
    ELSE IF cookies.session = NoToken
    THEN [ok |-> FALSE, email |-> "", error |-> "Unauthorized"]
    ELSE IF JwtVerifies(cookies.session)
    THEN [ok |-> TRUE, email |-> cookies.session.email, error |-> ""]
    ELSE [ok |-> FALSE, email |-> "", error |-> "Invalid token"]

\* Mutant: the account is created anew at every resolution.
WithAccountMutC14(db, email) ==
  [e \in DOMAIN db \cup {email} |->
     IF e = email THEN NewAccount(email) ELSE db[e]]

\* db with an account for email, created when there is none (81-88, 149-156).
WithAccount(db, email) ==
  IF email \in DOMAIN db THEN db
  ELSE [e \in DOMAIN db \cup {email} |->
          IF e = email THEN NewAccount(email) ELSE db[e]]

(***************************************************************************)
(* GET /api/user, lines 145-171.                                           *)
(***************************************************************************)
GetUser(db, cookies) ==
  IF cookies.mock_session # ""
    THEN LET db2 == WithAccount(db, cookies.mock_session)
         IN  [db |-> db2, status |-> 200,
              body |-> AccountBody(db2[cookies.mock_session])]
    ELSE LET r == Resolve(cookies)
         IN  IF ~r.ok
               THEN [db |-> db, status |-> 401, body |-> ErrorBody(r.error)]
             ELSE IF r.email \notin DOMAIN db
               THEN [db |-> db, status |-> 404, body |-> ErrorBody("User not found")]
             ELSE [db |-> db, status |-> 200, body |-> AccountBody(db[r.email])]

(***************************************************************************)
(* POST /api/user/deduct, lines 181-205.  The handler is synchronous: it   *)
(* runs to completion before the event loop takes the next request.        *)
(***************************************************************************)
\* Mutant: the balance check of line 201 is missing.
DeductFromMutC2(acct, amount) ==
  IF acct.credits # Infinity
    THEN [ok |-> TRUE, acct |-> [acct EXCEPT !.credits = JsSub(@, amount)]]
    ELSE [ok |-> TRUE, acct |-> acct]

\* Mutant: the unlimited guard of line 200 is missing.
DeductFromMutC3(acct, amount) ==
  IF JsLt(acct.credits, amount)
    THEN [ok |-> FALSE, acct |-> acct]
    ELSE [ok |-> TRUE, acct |-> [acct EXCEPT !.credits = JsSub(@, amount)]]

\* Lines 199-204 on the account found.
DeductFrom(acct, amount) ==
  IF acct.credits # Infinity
    THEN IF JsLt(acct.credits, amount)
           THEN [ok |-> FALSE, acct |-> acct]
           ELSE [ok |-> TRUE, acct |-> [acct EXCEPT !.credits = JsSub(@, amount)]]
    ELSE [ok |-> TRUE, acct |-> acct]

\* Mutant: a refused deduct takes what is left of the balance.
DeductMutC7(db, cookies, amount) ==
  LET r == Resolve(cookies)
  IN  IF ~r.ok
        THEN [db |-> db, status |-> 401, body |-> ErrorBody(r.error)]
      ELSE IF r.email \notin DOMAIN db
        THEN [db |-> db, status |-> 404, body |-> ErrorBody("User not found")]
      ELSE LET d == DeductFrom(db[r.email], amount)
           IN  IF ~d.ok
                 THEN [db |-> [db EXCEPT ![r.email].credits = Num(0)],
                       status |-> 400,
                       body |-> ErrorBody("Insufficient credits")]
                 ELSE [db |-> [db EXCEPT ![r.email] = d.acct], status |-> 200,
                       body |-> AccountBody(d.acct)]

Deduct(db, cookies, amount) ==
  LET r == Resolve(cookies)
  IN  IF ~r.ok
        THEN [db |-> db, status |-> 401, body |-> ErrorBody(r.error)]
      ELSE IF r.email \notin DOMAIN db
        THEN [db |-> db, status |-> 404, body |-> ErrorBody("User not found")]
      ELSE LET d == DeductFrom(db[r.email], amount)
           IN  IF ~d.ok
                 THEN [db |-> db, status |-> 400,
                       body |-> ErrorBody("Insufficient credits")]
                 ELSE [db |-> [db EXCEPT ![r.email] = d.acct], status |-> 200,
                       body |-> AccountBody(d.acct)]

\* The numeric amount a successful deduct took from a metered account.
Taken(db, cookies, amount, status) ==
  IF status = 200 /\ db[Resolve(cookies).email].credits # Infinity /\ amount.t = "num"
    THEN amount.v
    ELSE 0

(***************************************************************************)
(* The client: state.                                                      *)
(***************************************************************************)
\* Calls of generateSpeech in one behaviour of Spec.
MaxRuns == 2

RunIds == 1..MaxRuns

\* useState(null) of line 330, and setUser(data) with a parsed JSON body.
NullUser == [present |-> FALSE, data |-> NoBody]
UserOf(body) == [present |-> TRUE, data |-> body]

\* One call of generateSpeech.  pc is where it is suspended; user and text
\* are the values its closure holds (user) and works on (processingText).
\* The other fields record what the call has done:
\*   lm, upstream  the state of its language-model and speech-model calls
\*                 (none, pending, then how the call settled),
\*   aborted       its controller has been aborted,
\*   deduct        0: no deduct request, 1: in flight, else the status answered,
\*   appended      history items it has added,
\*   errSet        the error it has surfaced,
\*   acct, bal0    the account its session resolved to when it started, and
\*                 the balance of that account then ("" when there is none),
\*   balPre, bal1  the balance right before and after its deduct was handled,
\*   uploaded      an audio file was uploaded when it was called,
\*   thrown        the message of the error a model call of it has thrown,
\*   typed         the text field when it was called,
\*   answer        the text its language-model call has answered.
NewRun ==
  [pc |-> "idle", mode |-> "tts", user |-> NullUser, text |-> EmptyText,
   outcome |-> "none", lm |-> "none", upstream |-> "none", aborted |-> FALSE,
   deduct |-> 0, appended |-> 0, errSet |-> ErrNull,
   acct |-> "", bal0 |-> Undefined, balPre |-> Undefined, bal1 |-> Undefined,
   uploaded |-> FALSE, thrown |-> <<>>, typed |-> EmptyText,
   answer |-> EmptyText]

Modes == {"tts", "voice_changer", "dubbing"}

\* A fetch in flight: the request on its way (phase "req", carrying the
\* cookies of the moment it was sent) or the response on its way back.
Fetch(kind, r, c, amount) ==
  [kind |-> kind, run |-> r, phase |-> "req", cookies |-> c, amount |-> amount,
   status |-> 0, body |-> NoBody]

\* The component is mounted and the fetch of lines 338-351, sent without a
\* cookie, has been answered 401: user is null.
AppInit ==
  /\ browserCookies = NoCookies
  /\ user = NullUser
  /\ isGenerating = FALSE
  /\ loadingStatus = ""
  /\ error = ErrNull
  /\ showMonetization = FALSE
  /\ audioUrl = 0
  /\ history = <<>>
  /\ abortControllerRef = 0
  /\ started = 0
  /\ runs = [r \in RunIds |-> NewRun]
  /\ net = {}
  /\ wav = NoWav
  /\ cancelClicked = {}

\* The run, finished with outcome and the error it surfaced.
Finished(run, outcome, err) ==
  [run EXCEPT !.pc = "done", !.outcome = outcome, !.errSet = err]

(***************************************************************************)
(* Spec: the App.  Each action is one turn of the event loop: a handler up *)
(* to its next await, or the continuation of an await.                     *)
(***************************************************************************)
\* Line 560: the amount of the deduct request.
DeductAmountMutC5(ptext) == Num(TextLen(Trim(ptext)))

DeductAmount(ptext) == Num(TextLen(ptext))

\* Line 500: the ceiling on the length of processingText.
TooLongMutC19(ptext) == FALSE

TooLong(ptext) == TextLen(ptext) > MAX_CHARS

\* Line 507: the credit check, on the balance the closure knows.
InsufficientCreditsMutC6(credits, ptext) == FALSE

InsufficientCredits(credits, ptext) ==
  credits # Infinity /\ JsLt(credits, Num(TextLen(ptext)))

\* Lines 493-519, for run r whose record so far is run (rs: the records of
\* the calls): the three checks on processingText, then the start of the
\* synthesis call.
ValidateAndSynthesize(rs, r, run) ==
  IF IsBlank(run.text)
    THEN /\ error' = ErrText("Text is empty.")
         /\ isGenerating' = FALSE
         /\ loadingStatus' = ""
         /\ runs' = [rs EXCEPT ![r] = Finished(run, "emptyText", error')]
         /\ UNCHANGED <<showMonetization, abortControllerRef>>
  ELSE IF TooLong(run.text)
    THEN /\ error' = ErrText("Text exceeds the character limit.")
         /\ isGenerating' = FALSE
         /\ loadingStatus' = ""
         /\ runs' = [rs EXCEPT ![r] = Finished(run, "tooLong", error')]
         /\ UNCHANGED <<showMonetization, abortControllerRef>>
  ELSE IF InsufficientCredits(run.user.data.credits, run.text)
    THEN /\ error' = ErrText("Insufficient credits.")
         /\ showMonetization' = TRUE
         /\ isGenerating' = FALSE
         /\ loadingStatus' = ""
         /\ runs' = [rs EXCEPT ![r] = Finished(run, "noCredits", error')]
         /\ UNCHANGED abortControllerRef
  ELSE /\ isGenerating' = TRUE
       /\ loadingStatus' = "Generating AI voice..."
       /\ error' = ErrNull
       /\ abortControllerRef' = r
       /\ runs' = [rs EXCEPT ![r] =
                     [run EXCEPT !.pc = "synthesizing", !.upstream = "pending"]]
       /\ UNCHANGED showMonetization

\* The account the cookies of the browser resolve to, "" when there is none.
SessionAccount ==
  LET s == Resolve(browserCookies)
  IN  IF s.ok /\ s.email \in DOMAIN usersDb THEN s.email ELSE ""

\* A call that has returned and has nothing in flight any more: no deduct
\* request on its way, no speech-model call outstanding.
Settled(run) == run.pc = "done" /\ run.deduct # 1 /\ run.upstream # "pending"

\* The records of the calls, as a new call finds them: what is recorded of a
\* settled call is dropped (the fields of a record describe one call and are
\* read by the claims while the call is the latest).
Forgotten(rs) == [i \in RunIds |-> IF Settled(rs[i]) THEN NewRun ELSE rs[i]]

\* Lines 455-456: the mode works on an upload and there is none.
NeedsUploadMutC11(m, uploaded) == FALSE

NeedsUpload(m, uploaded) == m # "tts" /\ ~uploaded

\* generateSpeech, lines 446-519, called with the mode selected, an audio
\* file uploaded or not, and (in tts mode) the text typed; up to the first
\* await.
GenerateSpeech(m, uploaded, typed) ==
  /\ started < MaxRuns
  /\ started' = started + 1
  /\ LET r == started + 1
         rs == Forgotten(runs)
         run == [NewRun EXCEPT
                   !.mode = m, !.user = user, !.text = typed, !.typed = typed,
                   !.uploaded = uploaded,
                   !.acct = SessionAccount,
                   !.bal0 = IF SessionAccount = "" THEN Undefined
                            ELSE usersDb[SessionAccount].credits]
     IN  IF ~user.present
           THEN \* handleLogin(): the popup opens (see Login)
                /\ runs' = [rs EXCEPT ![r] = Finished(run, "login", ErrNull)]
                /\ UNCHANGED <<isGenerating, loadingStatus, error, showMonetization,
                               abortControllerRef>>
         ELSE IF NeedsUpload(m, uploaded)
           THEN /\ error' = ErrText("Please upload an audio file first.")
                /\ runs' = [rs EXCEPT ![r] = Finished(run, "noUpload", error')]
                /\ UNCHANGED <<isGenerating, loadingStatus, showMonetization,
                               abortControllerRef>>
         ELSE IF m # "tts"
           THEN /\ isGenerating' = TRUE
                /\ loadingStatus' = IF m = "dubbing" THEN "Translating audio..."
                                    ELSE "Analyzing audio..."
                /\ error' = ErrNull
                /\ runs' = [rs EXCEPT ![r] =
                              [run EXCEPT !.pc = "preprocessing", !.lm = "pending"]]
                /\ UNCHANGED <<showMonetization, abortControllerRef>>
         ELSE ValidateAndSynthesize(rs, r, run)
  /\ UNCHANGED <<cancelClicked, wav,
                 ledgerVars, browserCookies, user, audioUrl, history, net>>

\* Line 479: processingText after the language model has answered, from the
\* text field (let processingText = text, line 452) and the answer.
TranscribedMutC20(typed, answer) == typed

Transcribed(typed, answer) == answer

\* Lines 479-519: the language model answers run r with the text answer
\* (isText) or throws err.
LmSettles(r, isText, answer, err) ==
  /\ runs[r].pc = "preprocessing"
  /\ LET run == runs[r]
         thrown == IF isText THEN NewError(MsgNoSpeech) ELSE err
         ptext == Transcribed(run.typed, answer)
     IN  IF ~isText \/ IsBlank(ptext)
           THEN /\ error' = ErrMessage("Failed to process audio file. ", thrown.message)
                /\ isGenerating' = FALSE
                /\ loadingStatus' = ""
                /\ runs' = [runs EXCEPT ![r] =
                              Finished([run EXCEPT
                                          !.lm = IF isText THEN "answered" ELSE "error",
                                          !.text = IF isText THEN ptext ELSE @,
                                          !.answer = IF isText THEN answer ELSE @,
                                          !.thrown = IF isText THEN @ ELSE err.message],
                                       "processFailed", error')]
                /\ UNCHANGED <<showMonetization, abortControllerRef>>
           ELSE ValidateAndSynthesize(runs, r,
                                      [run EXCEPT !.text = ptext, !.answer = answer,
                                                  !.lm = "answered"])
  /\ UNCHANGED <<cancelClicked, wav,
                 ledgerVars, browserCookies, user, audioUrl, history, started, net>>

\* Lines 567-573
HistoryItem(r, run) == [id |-> r, text |-> PreviewText(run.text)]

\* Mutant: the new item goes to the end of the list.
PrependedMutC15(item, prev) == prev \o <<item>>

\* Line 574: setHistory(prev => [newItem, ...prev])
Prepended(item, prev) == <<item>> \o prev

\* Lines 598-602, the finally block, and lines 587-597 before it when the
\* try block has thrown err.
Thrown(r, run, outcome, err) ==
  /\ error' = CatchError(err, error)
  /\ runs' = [runs EXCEPT ![r] =
                Finished(run, outcome,
                         IF IsAbortError(err) THEN ErrNull ELSE Surfaced(err))]
  /\ isGenerating' = FALSE
  /\ loadingStatus' = ""
  /\ abortControllerRef' = 0

\* Lines 552-554: the response carries a base64 audio payload that is not
\* empty (if (base64Audio)).
HasAudioMutC21(result) == TRUE

HasAudio(result) == result = "audio"

\* Lines 540-602: the speech model settles the call of run r: with audio,
\* with no audio, or by throwing err.  When the race of line 540 has already
\* been lost to the abort signal the result is discarded.
SynthSettles(r, result, err) ==
  /\ runs[r].upstream = "pending"
  /\ LET run == [runs[r] EXCEPT !.upstream = result]
     IN  IF runs[r].pc # "synthesizing"
           THEN /\ runs' = [runs EXCEPT ![r] = run]
                /\ UNCHANGED <<error, isGenerating, loadingStatus, abortControllerRef,
                               audioUrl, history, net>>
         ELSE IF HasAudio(result)
           THEN /\ net' = IF run.user.data.credits # Infinity
                            THEN net \cup {Fetch("deduct", r, browserCookies,
                                                 DeductAmount(run.text))}
                            ELSE net
                /\ audioUrl' = r
                /\ history' = Prepended(HistoryItem(r, run), history)
                /\ runs' = [runs EXCEPT ![r] =
                              Finished([run EXCEPT
                                          !.deduct = IF run.user.data.credits # Infinity
                                                       THEN 1 ELSE 0,
                                          !.appended = @ + 1],
                                       "completed", ErrNull)]
                /\ isGenerating' = FALSE
                /\ loadingStatus' = ""
                /\ abortControllerRef' = 0
                /\ UNCHANGED error
         ELSE IF result = "empty"
           THEN /\ Thrown(r, run, "emptySynthesis", NewError(MsgEmptyResponse))
                /\ UNCHANGED <<audioUrl, history, net>>
         ELSE /\ Thrown(r, [run EXCEPT !.thrown = err.message], "upstreamError", err)
              /\ UNCHANGED <<audioUrl, history, net>>
  /\ UNCHANGED <<cancelClicked, wav,
                 ledgerVars, browserCookies, user, showMonetization, started>>

\* Mutant: no abort listener is registered on the controller.
OnAbortMutC8(run) == [run EXCEPT !.aborted = TRUE]

\* Lines 546-548 and 587-602: the abort listener of the run rejects the race
\* and the run goes through its catch and finally blocks.
OnAbort(run) ==
  Finished([run EXCEPT !.aborted = TRUE], "cancelled",
           IF IsAbortError(AbortRejection) THEN ErrNull ELSE Surfaced(AbortRejection))

\* handleCancel, lines 605-612, and the microtasks it triggers.
HandleCancel ==
  /\ abortControllerRef # 0
  /\ LET r == abortControllerRef
         run == OnAbort(runs[r])
     IN  /\ runs' = [runs EXCEPT ![r] = run]
         /\ error' = IF run.pc = "done" THEN CatchError(AbortRejection, error) ELSE error
  /\ abortControllerRef' = 0
  /\ isGenerating' = FALSE
  /\ loadingStatus' = ""
  /\ UNCHANGED <<cancelClicked, wav,
                 ledgerVars, browserCookies, user, showMonetization, audioUrl,
                 history, started, net>>

\* The identities the user of the App signs in with.
AppEmails == {"a@x.com"}

\* Fetches of the account, started by a sign-in, that may be in flight at once.
MaxLoginFetches == 1

\* The sign-in popup of handleLogin (lines 367-375) run to its end for email:
\* without a provider the preview page sets the mock_session cookie (line
\* 128); with one, /auth/callback creates the account and sets the signed
\* session cookie (lines 80-95).  The popup then posts OAUTH_AUTH_SUCCESS
\* and the listener of lines 355-362 fetches the account.
Login(email) ==
  /\ ~user.present
  /\ Cardinality({m \in net : m.kind = "userLogin"}) < MaxLoginFetches
  /\ IF providerConfigured
       THEN /\ usersDb' = WithAccount(usersDb, email)
            /\ issued' = issued \cup {email}
            /\ browserCookies' = [browserCookies EXCEPT !.session = SignedToken(email)]
       ELSE /\ browserCookies' = [browserCookies EXCEPT !.mock_session = email]
            /\ UNCHANGED <<usersDb, issued>>
  /\ net' = net \cup {Fetch("userLogin", 0, browserCookies', Undefined)}
  /\ UNCHANGED <<cancelClicked, wav,
                 providerConfigured, req, resp, nreq, deducted, user,
                 isGenerating, loadingStatus, error, showMonetization, audioUrl,
                 history, abortControllerRef, started, runs>>

\* The balance of the account the cookies resolve to, undefined without one.
BalanceFor(db, c) ==
  IF Resolve(c).ok /\ Resolve(c).email \in DOMAIN db
    THEN db[Resolve(c).email].credits
    ELSE Undefined

\* The server handles the request of fetch m: GET /api/user or POST
\* /api/user/deduct.
ServerHandles(m) ==
  /\ m \in net
  /\ m.phase = "req"
  /\ LET res == IF m.kind = "deduct" THEN Deduct(usersDb, m.cookies, m.amount)
                ELSE GetUser(usersDb, m.cookies)
     IN  /\ usersDb' = res.db
         /\ net' = (net \ {m}) \cup
                     {[m EXCEPT !.phase = "resp", !.status = res.status,
                                !.body = res.body]}
         /\ runs' = IF m.kind = "deduct"
                      THEN [runs EXCEPT
                              ![m.run] = [@ EXCEPT
                                 !.deduct = res.status,
                                 !.balPre = BalanceFor(usersDb, m.cookies),
                                 !.bal1 = BalanceFor(res.db, m.cookies)]]
                      ELSE runs
  /\ UNCHANGED <<cancelClicked, wav,
                 providerConfigured, issued, req, resp, nreq, deducted,
                 browserCookies, user, isGenerating, loadingStatus, error,
                 showMonetization, audioUrl, history, abortControllerRef, started>>

\* The response of fetch m reaches the client: lines 358-359 for the fetch
\* after a sign-in, line 561 for a deduct.  Both pass the parsed body to
\* setUser, whatever the status.
ClientReceives(m) ==
  /\ m \in net
  /\ m.phase = "resp"
  /\ user' = UserOf(m.body)
  /\ net' = net \ {m}
  /\ UNCHANGED <<cancelClicked, wav,
                 ledgerVars, browserCookies, isGenerating, loadingStatus,
                 error, showMonetization, audioUrl, history, abortControllerRef,
                 started, runs>>

\* handleLogout, lines 377-387, with the logout route of lines 174-178
\* clearing both cookies.
HandleLogout ==
  /\ browserCookies' = NoCookies
  /\ user' = NullUser
  /\ history' = <<>>
  /\ audioUrl' = 0
  /\ UNCHANGED <<cancelClicked, wav,
                 ledgerVars, isGenerating, loadingStatus, error,
                 showMonetization, abortControllerRef, started, runs, net>>

\* What a second client of the same account asks to deduct.
OtherAmounts == {Num(19900)}

\* The session of a second client signed in as email.
OtherCookies(email) ==
  IF providerConfigured
    THEN [mock_session |-> "", session |-> SignedToken(email)]
    ELSE [mock_session |-> email, session |-> NoToken]

\* A second client signed in as email posts a deduct, handled at once.
OtherClientDeduct(email, amount) ==
  /\ email \in DOMAIN usersDb
  /\ usersDb' = Deduct(usersDb, OtherCookies(email), amount).db
  /\ UNCHANGED <<cancelClicked, wav,
                 providerConfigured, issued, req, resp, nreq, deducted,
                 browserCookies, user,
                 isGenerating, loadingStatus, error, showMonetization,
                 audioUrl, history, abortControllerRef, started, runs, net>>

(***************************************************************************)
(* SpecLedger: the server under arbitrary requests.  Any client, the App    *)
(* included, reaches the ledger only through these handlers.               *)
(***************************************************************************)
\* The cookies a request can carry: any preview marker (it is unsigned), no
\* token, a token that does not verify, or a token the server has signed.
RequestCookies ==
  {[mock_session |-> m, session |-> s] :
     m \in Identities \cup {""},
     s \in {NoToken, BadToken("a@x.com")} \cup {SignedToken(e) : e \in issued}}

LedgerInit ==
  /\ usersDb = <<>>
  /\ providerConfigured \in BOOLEAN
  /\ issued = {}
  /\ req = NoRequest
  /\ resp = NoResponse
  /\ nreq = 0
  /\ deducted = [e \in Identities |-> 0]

\* GET /api/user
HttpGetUser(cookies) ==
  /\ nreq < MaxRequests
  /\ LET r == GetUser(usersDb, cookies)
     IN  /\ usersDb' = r.db
         /\ resp' = [status |-> r.status, body |-> r.body]
  /\ req' = [op |-> "user", cookies |-> cookies, amount |-> Undefined]
  /\ nreq' = nreq + 1
  /\ UNCHANGED <<cancelClicked, wav,
                 providerConfigured, issued, deducted, appVars>>

\* POST /api/user/deduct
HttpDeduct(cookies, amount) ==
  /\ nreq < MaxRequests
  /\ LET r == Deduct(usersDb, cookies, amount)
         took == Taken(usersDb, cookies, amount, r.status)
     IN  /\ usersDb' = r.db
         /\ resp' = [status |-> r.status, body |-> r.body]
         /\ deducted' =
              IF took # 0
                THEN [deducted EXCEPT ![Resolve(cookies).email] = @ + took]
                ELSE deducted
  /\ req' = [op |-> "deduct", cookies |-> cookies, amount |-> amount]
  /\ nreq' = nreq + 1
  /\ UNCHANGED <<cancelClicked, wav, providerConfigured, issued, appVars>>

\* GET /auth/callback, lines 53-110: the provider vouches for email (codeOk)
\* or the exchange gives no id_token.
HttpAuthCallback(email, codeOk) ==
  /\ nreq < MaxRequests
  /\ IF providerConfigured /\ codeOk
       THEN /\ usersDb' = WithAccount(usersDb, email)
            /\ issued' = issued \cup {email}
            /\ resp' = [status |-> 200, body |-> NoBody]
       ELSE /\ resp' = [status |-> 500, body |-> NoBody]
            /\ UNCHANGED <<usersDb, issued>>
  /\ req' = [op |-> "callback", cookies |-> NoCookies, amount |-> Undefined]
  /\ nreq' = nreq + 1
  /\ UNCHANGED <<cancelClicked, wav, providerConfigured, deducted, appVars>>

\* POST /api/auth/logout, lines 174-178: clears the cookies of the caller,
\* nothing of the ledger.
HttpLogout(cookies) ==
  /\ nreq < MaxRequests
  /\ req' = [op |-> "logout", cookies |-> cookies, amount |-> Undefined]
  /\ resp' = [status |-> 200, body |-> NoBody]
  /\ nreq' = nreq + 1
  /\ UNCHANGED <<cancelClicked, wav,
                 usersDb, providerConfigured, issued, deducted, appVars>>

LedgerNext ==
  \/ \E c \in RequestCookies : HttpGetUser(c)
  \/ \E c \in RequestCookies, a \in Amounts : HttpDeduct(c, a)
  \/ \E e \in Identities, codeOk \in BOOLEAN : HttpAuthCallback(e, codeOk)
  \/ \E c \in RequestCookies : HttpLogout(c)

vars == <<ledgerVars, appVars, wav, cancelClicked>>

\* The App is served without GOOGLE_CLIENT_ID, the default of line 12: the
\* preview deployment.
Init == LedgerInit /\ providerConfigured = FALSE /\ AppInit

Next ==
  \/ \E m \in Modes :
       \E uploaded \in IF m = "tts" THEN {FALSE} ELSE BOOLEAN,
          typed \in IF m = "tts" THEN Texts ELSE {TextAside} :
         GenerateSpeech(m, uploaded, typed)
  \/ \E r \in RunIds, answer \in Texts : LmSettles(r, TRUE, answer, NewError(<<>>))
  \/ \E r \in RunIds, err \in UpstreamErrors : LmSettles(r, FALSE, EmptyText, err)
  \/ \E r \in RunIds, result \in {"audio", "empty"} :
       SynthSettles(r, result, NewError(<<>>))
  \/ \E r \in RunIds, err \in UpstreamErrors : SynthSettles(r, "error", err)
  \/ HandleCancel
  \/ \E e \in AppEmails : Login(e)
  \/ \E m \in net : ServerHandles(m)
  \/ \E m \in net : ClientReceives(m)
  \/ HandleLogout
  \/ \E a \in OtherAmounts : OtherClientDeduct("a@x.com", a)

Spec == Init /\ [][Next]_vars

\* The server alone: the App stays as mounted.
InitLedger == LedgerInit /\ AppInit

SpecLedger == InitLedger /\ [][LedgerNext]_vars

(***************************************************************************)
(* SpecLive: the App with its clicks on cancel recorded, under the         *)
(* assumption that a model call that is outstanding responds unless the    *)
(* user has clicked cancel while it was outstanding.                       *)
(***************************************************************************)
\* Run r is suspended at the await of one of its model calls.
InFlight(r) == runs[r].pc \in {"preprocessing", "synthesizing"}

\* The model call run r is awaiting.
Outstanding(r) == <<r, runs[r].pc>>

\* A click on cancel while a run is in flight: handleCancel, lines 605-612,
\* which does nothing when no controller is held (line 606).
CancelClick ==
  /\ \E r \in RunIds : InFlight(r)
  /\ cancelClicked' = cancelClicked \cup {Outstanding(r) : r \in {i \in RunIds : InFlight(i)}}
  /\ IF abortControllerRef # 0
       THEN /\ LET r == abortControllerRef
                   run == OnAbort(runs[r])
               IN  /\ runs' = [runs EXCEPT ![r] = run]
                   /\ error' = IF run.pc = "done" THEN CatchError(AbortRejection, error)
                                ELSE error
            /\ abortControllerRef' = 0
            /\ isGenerating' = FALSE
            /\ loadingStatus' = ""
       ELSE UNCHANGED <<runs, error, abortControllerRef, isGenerating, loadingStatus>>
  /\ UNCHANGED <<wav, ledgerVars, browserCookies, user, showMonetization, audioUrl,
                 history, started, net>>

\* A model call of run r settles: lines 469-479 and 540-552.
Responds(r) ==
  \/ \E answer \in Texts : LmSettles(r, TRUE, answer, NewError(<<>>))
  \/ \E err \in UpstreamErrors : LmSettles(r, FALSE, EmptyText, err)
  \/ \E result \in {"audio", "empty"} : SynthSettles(r, result, NewError(<<>>))
  \/ \E err \in UpstreamErrors : SynthSettles(r, "error", err)

NextLive ==
  \/ \E m \in Modes :
       \E uploaded \in IF m = "tts" THEN {FALSE} ELSE BOOLEAN,
          typed \in IF m = "tts" THEN Texts ELSE {TextAside} :
         GenerateSpeech(m, uploaded, typed)
  \/ \E r \in RunIds : Responds(r)
  \/ CancelClick
  \/ \E e \in AppEmails : Login(e)
  \/ \E m \in net : ServerHandles(m)
  \/ \E m \in net : ClientReceives(m)
  \/ HandleLogout

\* Every outstanding model call responds, or the user clicks cancel.
Fairness ==
  \A r \in RunIds : WF_vars(Outstanding(r) \notin cancelClicked /\ Responds(r))

SpecLive == Init /\ [][NextLive]_vars /\ Fairness

(***************************************************************************)
(* SpecWav: createWavUrl applied to payloads of every length up to         *)
(* MaxPayload and of lengths around the byte boundaries, at the default    *)
(* and at extreme sample rates.                                            *)
(***************************************************************************)
\* Every payload length up to this one is encoded.
MaxPayload == 40

\* bytes.length: short payloads, lengths at the carries of the length
\* field, and a length near the longest string atob can return.
PayloadSizes ==
  0..MaxPayload \cup {255, 256, 65535, 65536, 16777215, 16777216, 1073741799}

\* sampleRate: the default 24000, other usual rates, and the ends of the
\* range.
SampleRates == {0, 8000, 24000, 44100, 65536, 1073741824, 2147483647}

\* A call of createWavUrl
CreateWavUrl(len, sampleRate) ==
  /\ wav' = CreateWav(len, sampleRate)
  /\ UNCHANGED <<ledgerVars, appVars, cancelClicked>>

WavNext == \E len \in PayloadSizes, sampleRate \in SampleRates : CreateWavUrl(len, sampleRate)

SpecWav == Init /\ [][WavNext]_vars

(***************************************************************************)
(* Claims on the ledger (checked under SpecLedger).                        *)
(***************************************************************************)
\* e has an account and it is not unlimited.
Metered(e) == e \in DOMAIN usersDb /\ usersDb[e].credits # Infinity

\* C1: for every non-unlimited account, in every state reachable by deduct
\* requests in any order, the balance is a number >= 0 and the amounts
\* successfully deducted sum to at most the initial balance.
C1_NeverNegative ==
  \A e \in DOMAIN usersDb :
    usersDb[e].credits # Infinity =>
      /\ usersDb[e].credits.t = "num"
      /\ usersDb[e].credits.v >= 0
      /\ deducted[e] <= InitialCredits

\* "balance < amount" and "balance - amount" as the claim states them, on
\* numbers; a null amount counts as 0, and with a balance or an amount that is
\* not a number nothing is smaller and the difference is not a number.
ClaimLess(bal, amt) ==
  /\ bal.t = "num"
  /\ \/ amt.t = "num" /\ bal.v < amt.v
     \/ amt.t = "null" /\ bal.v < 0

ClaimMinus(bal, amt) ==
  IF bal.t = "num" /\ amt.t = "num" THEN Num(bal.v - amt.v)
  ELSE IF bal.t = "num" /\ amt.t = "null" THEN bal
  ELSE NaN

\* C2: a deduct on a non-unlimited account either fails with 400
\* "Insufficient credits" when balance < amount, leaving every account as it
\* was, or leaves the balance at exactly balance - amount, every other
\* account unchanged, and returns the updated account.
C2_CheckAndDeduct ==
  [][(/\ nreq' = nreq + 1
      /\ req'.op = "deduct"
      /\ Resolve(req'.cookies).ok
      /\ Metered(Resolve(req'.cookies).email))
     => LET e == Resolve(req'.cookies).email
            bal == usersDb[e].credits
            amt == req'.amount
        IN  IF ClaimLess(bal, amt)
              THEN /\ resp'.status = 400
                   /\ resp'.body = ErrorBody("Insufficient credits")
                   /\ usersDb' = usersDb
              ELSE /\ resp'.status = 200
                   /\ DOMAIN usersDb' = DOMAIN usersDb
                   /\ usersDb'[e].credits = ClaimMinus(bal, amt)
                   /\ \A o \in DOMAIN usersDb \ {e} : usersDb'[o] = usersDb[o]
                   /\ resp'.body.email = e
                   /\ resp'.body.credits = JsonNumber(usersDb'[e].credits)
    ]_vars

\* Witness of C2: a deduct has succeeded on a@x.com, a later one is refused
\* with 400, and another metered account exists beside it.
C2_Witness ==
  /\ req.op = "deduct"
  /\ resp.status = 400
  /\ Resolve(req.cookies).email = "a@x.com"
  /\ deducted["a@x.com"] > 0
  /\ Metered("b@x.com")

C4_NoAccountNotFound ==
  (req.op \in {"user", "deduct"} /\ Resolve(req.cookies).ok)
    => /\ Resolve(req.cookies).email \in DOMAIN usersDb
       /\ resp.status # 404

(***************************************************************************)
(* Claims on the generation client (checked under Spec).                   *)
(***************************************************************************)
\* The text of the run is within the limits of lines 493-505.
Synthesizable(run) ==
  /\ ~(\A i \in 1..Len(run.text) : IsWhitespace(run.text[i][1]))
  /\ TextLen(run.text) <= MAX_CHARS

\* The deduct request of the run has been answered by the server.
DeductAnswered(run) == run.deduct \notin {0, 1}

\* History items and fetches in flight that stem from run r.
ItemsOf(r) == {i \in 1..Len(history) : history[i].id = r}
FetchesOf(r) == {m \in net : m.kind = "deduct" /\ m.run = r}

\* C5: a direct-mode run on a non-privileged account with balance B and a
\* text of length L, 0 < L <= ceiling and L <= B, that completes appends
\* exactly one history item and sends one deduct; when the balance is still
\* B as the deduct arrives, the deduct succeeds and leaves exactly B - L.
C5_DirectRunCharged ==
  \A r \in RunIds :
    LET run == runs[r]
        L == TextLen(run.text)
    IN  (/\ run.mode = "tts"
         /\ run.outcome = "completed"
         /\ run.bal0.t = "num"
         /\ L > 0 /\ L <= MAX_CHARS /\ L <= run.bal0.v)
        => /\ run.appended = 1
           /\ run.deduct # 0
           /\ (DeductAnswered(run) /\ run.balPre = run.bal0)
                => /\ run.deduct = 200
                   /\ run.bal1 = Num(run.bal0.v - L)

\* Witness of C5: a direct run of 500 characters started at balance 20000
\* has completed, its item is in the history and its deduct has left 19500.
C5_Witness ==
  \E r \in RunIds :
    /\ runs[r].mode = "tts"
    /\ runs[r].outcome = "completed"
    /\ TextLen(runs[r].text) = 500
    /\ runs[r].bal0 = Num(20000)
    /\ runs[r].balPre = Num(20000)
    /\ runs[r].deduct = 200
    /\ runs[r].bal1 = Num(19500)
    /\ usersDb["a@x.com"].credits = Num(19500)
    /\ ItemsOf(r) # {}

\* C6 as stated: a direct-mode run on an account whose balance is a number
\* below the text length still has its synthesis call issued.
C6_SynthesisStillRuns ==
  \A r \in RunIds :
    LET run == runs[r]
    IN  (/\ run.mode = "tts"
         /\ run.pc = "done"
         /\ run.user.present
         /\ Synthesizable(run)
         /\ run.bal0.t = "num"
         /\ run.bal0.v < TextLen(run.text))
        => run.upstream # "none"

\* C6, amended: when the balance the client holds for the account is a
\* number below the length of the text, a direct-mode run ends with
\* "Insufficient credits" and the upsell prompt before any synthesis call:
\* no audio, no history item, no deduct request.
C6_RejectedBeforeSynthesis ==
  \A r \in RunIds :
    LET run == runs[r]
    IN  (/\ run.mode = "tts"
         /\ run.pc # "idle"
         /\ run.user.present
         /\ Synthesizable(run)
         /\ run.user.data.credits.t = "num"
         /\ run.user.data.credits.v < TextLen(run.text))
        => /\ run.outcome = "noCredits"
           /\ run.errSet = ErrText("Insufficient credits.")
           /\ run.upstream = "none"
           /\ run.deduct = 0
           /\ run.appended = 0
           /\ ItemsOf(r) = {}
           /\ FetchesOf(r) = {}

\* Witness of C6: balance 100, known to the client, and a text of 500
\* characters: the run has been refused and the prompt is shown.
C6_Witness ==
  \E r \in RunIds :
    /\ runs[r].mode = "tts"
    /\ runs[r].outcome = "noCredits"
    /\ runs[r].bal0 = Num(100)
    /\ runs[r].user.data.credits = Num(100)
    /\ TextLen(runs[r].text) = 500
    /\ usersDb["a@x.com"].credits = Num(100)
    /\ showMonetization

\* C7: when the deduct of a run is refused (400) because the balance was
\* taken in the meantime, the run has completed with its audio and its
\* history item, and the balance is what it was when the deduct arrived: a
\* number >= 0.
C7_DepletedRunKeepsAudio ==
  \A r \in RunIds :
    LET run == runs[r]
    IN  run.deduct = 400
        => /\ run.outcome = "completed"
           /\ run.upstream = "audio"
           /\ run.appended = 1
           /\ run.bal1 = run.balPre
           /\ run.bal1.t = "num"
           /\ run.bal1.v >= 0

\* Witness of C7: the run started at balance 20000 with 500 characters, the
\* second client took 19900 before its deduct arrived, the deduct was refused
\* and the item of the run is in the history.
C7_Witness ==
  \E r \in RunIds :
    /\ runs[r].deduct = 400
    /\ runs[r].bal0 = Num(20000)
    /\ runs[r].user.data.credits = Num(20000)
    /\ runs[r].balPre = Num(100)
    /\ usersDb["a@x.com"].credits = Num(100)
    /\ audioUrl = r
    /\ ItemsOf(r) # {}

\* The outcomes of a run that has failed.
FailedOutcomes ==
  {"emptySynthesis", "upstreamError", "processFailed", "emptyText", "tooLong",
   "noCredits"}

\* C8: a run that has failed or has been cancelled has sent no deduct and
\* appended no history item, also after the speech-model call of a cancelled
\* run has resolved.
C8_NoChargeOnFailure ==
  \A r \in RunIds :
    LET run == runs[r]
    IN  (run.outcome \in FailedOutcomes \cup {"cancelled"} \/ run.aborted)
        => /\ run.deduct = 0
           /\ run.appended = 0
           /\ ItemsOf(r) = {}
           /\ FetchesOf(r) = {}

\* Witness of C8: a run was cancelled during its synthesis call, the call
\* has since resolved with audio, and the balance is the one of the start.
C8_Witness ==
  \E r \in RunIds :
    /\ runs[r].outcome = "cancelled"
    /\ runs[r].aborted
    /\ runs[r].upstream = "audio"
    /\ runs[r].bal0 = Num(20000)
    /\ usersDb["a@x.com"].credits = Num(20000)
    /\ history = <<>>

\* C9: a run cancelled by handleCancel surfaces no error.
C9_CancelSurfacesNoError ==
  \A r \in RunIds :
    runs[r].outcome = "cancelled" => runs[r].errSet = ErrNull

\* C10: a voice-changer or dubbing run whose language-model call answers
\* with an empty or whitespace-only text fails with "Failed to process audio
\* file. Could not extract speech from audio." with no synthesis call and no
\* deduct.
C10_BlankTranscriptionFails ==
  \A r \in RunIds :
    LET run == runs[r]
    IN  (/\ run.lm = "answered"
         /\ \A i \in 1..Len(run.text) : IsWhitespace(run.text[i][1]))
        => /\ run.mode # "tts"
           /\ run.outcome = "processFailed"
           /\ run.errSet = ErrMessage("Failed to process audio file. ", MsgNoSpeech)
           /\ run.upstream = "none"
           /\ run.deduct = 0
           /\ run.appended = 0

\* Witness of C10: a dubbing run got a whitespace-only translation and has
\* failed; nothing is in flight and the balance is the one of the start.
C10_Witness ==
  \E r \in RunIds :
    /\ runs[r].mode = "dubbing"
    /\ runs[r].lm = "answered"
    /\ runs[r].text = BlankText
    /\ runs[r].outcome = "processFailed"
    /\ runs[r].bal0 = Num(20000)
    /\ usersDb["a@x.com"].credits = Num(20000)
    /\ net = {}

\* C11: a voice-changer or dubbing call without an uploaded audio file is
\* refused with "Please upload an audio file first." (or, signed out, sent to
\* the sign-in) before any language-model call, speech-model call or deduct:
\* it never enters preprocessing.
C11_NoUploadRejected ==
  \A r \in RunIds :
    LET run == runs[r]
    IN  (run.pc # "idle" /\ run.mode # "tts" /\ ~run.uploaded)
        => /\ run.pc = "done"
           /\ run.outcome = IF run.user.present THEN "noUpload" ELSE "login"
           /\ run.user.present
                => run.errSet = ErrText("Please upload an audio file first.")
           /\ run.lm = "none"
           /\ run.upstream = "none"
           /\ run.deduct = 0
           /\ run.appended = 0
           /\ FetchesOf(r) = {}

\* Witness of C11: signed in, a dubbing call without upload has been refused
\* and nothing is in flight.
C11_Witness ==
  \E r \in RunIds :
    /\ runs[r].mode = "dubbing"
    /\ ~runs[r].uploaded
    /\ runs[r].user.data.credits = Num(20000)
    /\ runs[r].outcome = "noUpload"
    /\ error = ErrText("Please upload an audio file first.")
    /\ ~isGenerating
    /\ net = {}

(***************************************************************************)
(* Further claims on the ledger (checked under SpecLedger).                *)
(***************************************************************************)
\* C12: a GET /api/user or POST /api/user/deduct that carries a preview
\* marker is served for the identity of the marker, and exactly as the same
\* request without its session token would be: the token, valid or not and
\* for whichever identity, has no effect on the ledger or on the response.
C12_PreviewPrecedence ==
  [][(/\ nreq' = nreq + 1
      /\ req'.op \in {"user", "deduct"}
      /\ req'.cookies.mock_session # "")
     => LET bare == [req'.cookies EXCEPT !.session = NoToken]
            res == IF req'.op = "user" THEN GetUser(usersDb, bare)
                   ELSE Deduct(usersDb, bare, req'.amount)
        IN  /\ usersDb' = res.db
            /\ resp' = [status |-> res.status, body |-> res.body]
            /\ resp'.status # 401
            /\ resp'.status = 200 => resp'.body.email = req'.cookies.mock_session
    ]_vars

\* Witness of C12: a deduct carrying the marker of a@x.com together with a
\* verifying token of b@x.com has been served from the account of a@x.com,
\* the account of b@x.com being untouched.
C12_Witness ==
  /\ req.op = "deduct"
  /\ req.cookies.mock_session = "a@x.com"
  /\ req.cookies.session = SignedToken("b@x.com")
  /\ req.amount = Num(500)
  /\ resp.status = 200
  /\ resp.body.email = "a@x.com"
  /\ resp.body.credits = Num(19500)
  /\ usersDb["b@x.com"].credits = Num(20000)

\* C13: with an identity provider configured, a GET /api/user or POST
\* /api/user/deduct that carries a preview marker and no verifying session
\* token is answered 401.
C13_PreviewOnlyWithoutProvider ==
  (/\ providerConfigured
   /\ req.op \in {"user", "deduct"}
   /\ req.cookies.mock_session # ""
   /\ ~JwtVerifies(req.cookies.session))
  => resp.status = 401

\* C14: resolving an identity, by GET /api/user with a preview marker or by
\* the OAuth callback, leaves every existing account as it is (never
\* created anew, balance and tier kept, also after deducts); a GET for an
\* identity that has an account changes nothing in the ledger and returns
\* that account.
C14_ResolveIdempotent ==
  [][(nreq' = nreq + 1 /\ req'.op \in {"user", "callback"})
     => /\ \A e \in DOMAIN usersDb :
             e \in DOMAIN usersDb' /\ usersDb'[e] = usersDb[e]
        /\ (/\ req'.op = "user"
            /\ req'.cookies.mock_session \in DOMAIN usersDb)
           => /\ usersDb' = usersDb
              /\ resp'.status = 200
              /\ resp'.body = AccountBody(usersDb[req'.cookies.mock_session])
    ]_vars

\* Witness of C14: after a deduct of 500 from a@x.com, whose session token
\* was issued by the callback, a GET with the marker of a@x.com returns the
\* account with 19500.
C14_Witness ==
  /\ req.op = "user"
  /\ req.cookies.mock_session = "a@x.com"
  /\ resp.status = 200
  /\ resp.body.email = "a@x.com"
  /\ resp.body.credits = Num(19500)
  /\ deducted["a@x.com"] = 500
  /\ "a@x.com" \in issued

(***************************************************************************)
(* Further claims on the generation client (checked under Spec).           *)
(***************************************************************************)
\* A step prepends the item of run r, which completes in this step, to the
\* history.
PrependsItemOf(r) ==
  /\ runs[r].outcome # "completed"
  /\ runs'[r].outcome = "completed"
  /\ runs'[r].appended = 1
  /\ history' = <<[id |-> r, text |-> PreviewText(runs'[r].text)]>> \o history

\* C15 as stated: every step leaves the history as it is or prepends to it
\* the one item of a run that completes; nothing removes or reorders items.
C15_AppendOnly ==
  [][history' = history \/ \E r \in RunIds : PrependsItemOf(r)]_vars

\* C15, amended: every step leaves the history as it is, prepends to it the
\* one item of a run that completes in that step, or is the sign-out, which
\* empties it; a run that completes has one item.
C15_AppendOnlyUntilLogout ==
  [][/\ \/ history' = history
        \/ \E r \in RunIds : PrependsItemOf(r)
        \/ history' = <<>> /\ user' = NullUser /\ browserCookies' = NoCookies
     /\ \A r \in RunIds :
          (runs[r].outcome # "completed" /\ runs'[r].outcome = "completed")
            => PrependsItemOf(r)
    ]_vars

\* Witness of C15: run 1 completed and its item was emptied by a sign-out
\* while its deduct was in flight; run 2 then completed and its item is the
\* history.
C15_Witness ==
  /\ runs[1].outcome = "completed"
  /\ runs[1].appended = 1
  /\ ItemsOf(1) = {}
  /\ runs[2].outcome = "completed"
  /\ history = <<[id |-> 2, text |-> PreviewText(runs[2].text)]>>


\* C16: a run that has failed because its language-model call or its
\* speech-model call threw a quota signal shows the quota-exceeded error.
C16_QuotaCategory ==
  \A r \in RunIds :
    (/\ runs[r].outcome \in {"processFailed", "upstreamError"}
     /\ runs[r].thrown = MsgQuota)
    => runs[r].errSet = ErrText("API Quota Exceeded (429)")

\* C18: while a run is in preprocessing (its language-model call is
\* outstanding), handleCancel pre-empts it: a cancel is possible and ends
\* that run as cancelled.
C18_CancelPreemptsPreprocessing ==
  \A r \in RunIds :
    runs[r].pc = "preprocessing"
      => ENABLED (HandleCancel /\ runs'[r].outcome = "cancelled")

\* C19 as stated: a run that has failed because its text is over the
\* ceiling has issued no language-model call and no speech-model call.
C19_TooLongBeforeAnyCall ==
  \A r \in RunIds :
    runs[r].outcome = "tooLong"
      => runs[r].lm = "none" /\ runs[r].upstream = "none"

\* C19, amended: a run whose text (typed in tts mode, answered by the
\* language model otherwise) is over the ceiling fails with "Text exceeds
\* the character limit." and has issued no speech-model call and no deduct;
\* in tts mode it has issued no language-model call either, in the other
\* modes exactly the language-model call that answered the text.
C19_TooLongBeforeSynthesis ==
  \A r \in RunIds :
    LET run == runs[r]
        reached == /\ run.pc \notin {"idle", "preprocessing"}
                   /\ run.user.present
                   /\ run.mode # "tts" => run.lm = "answered"
    IN  /\ (reached /\ TextLen(run.text) > MAX_CHARS)
             => run.outcome = "tooLong"
        /\ run.outcome = "tooLong"
             => /\ TextLen(run.text) > MAX_CHARS
                /\ run.errSet = ErrText("Text exceeds the character limit.")
                /\ run.upstream = "none"
                /\ run.deduct = 0
                /\ run.appended = 0
                /\ FetchesOf(r) = {}
                /\ run.lm = IF run.mode = "tts" THEN "none" ELSE "answered"

\* Witness of C19: a dubbing run whose translation came back with 20001
\* characters has failed as too long.
C19_Witness ==
  \E r \in RunIds :
    /\ runs[r].mode = "dubbing"
    /\ runs[r].lm = "answered"
    /\ runs[r].text = LongText
    /\ runs[r].outcome = "tooLong"
    /\ error = ErrText("Text exceeds the character limit.")
    /\ ~isGenerating

\* C20: a tts run issues no language-model call and works on the text
\* typed; a voice-changer or dubbing run has its speech-model call issued
\* only after its language-model call answered a text that is not blank, and
\* works on that answer, not on the text field; the text a run works on is
\* the one synthesized, charged (the amount of its deduct is its length) and
\* previewed in its history item.
C20_ModeDeterminesPath ==
  \A r \in RunIds :
    LET run == runs[r]
        source == IF run.mode = "tts" THEN run.typed ELSE run.answer
    IN  /\ run.mode = "tts" => run.lm = "none"
        /\ (run.mode # "tts" /\ run.upstream # "none")
             => /\ run.lm = "answered"
                /\ \E i \in 1..Len(run.answer) : ~IsWhitespace(run.answer[i][1])
        /\ run.upstream # "none" => run.text = source
        /\ run.deduct # 0
             => \A m \in FetchesOf(r) : m.amount = Num(TextLen(source))
        /\ run.appended # 0
             => \A i \in ItemsOf(r) : history[i].text = PreviewText(source)

\* Witness of C20: a dubbing run started with 40 characters in the text
\* field got a translation of 500 characters, completed, was charged 500
\* and its history item previews the translation.
C20_Witness ==
  \E r \in RunIds :
    /\ runs[r].mode = "dubbing"
    /\ runs[r].typed = TextAside
    /\ runs[r].answer = Text500
    /\ runs[r].outcome = "completed"
    /\ runs[r].balPre = Num(20000)
    /\ runs[r].bal1 = Num(19500)
    /\ history = <<[id |-> r, text |-> PreviewText(Text500)]>>

\* C21: within one run the deduct request and the history append come only
\* after the speech-model call has returned audio that is not empty: a run
\* that has sent a deduct or added an item has a speech-model call that
\* returned audio, and a step that adds a history item or sends a deduct
\* request is the step in which the pending speech-model call of the run
\* that is awaiting it returns audio.
C21_AfterSynthesis ==
  /\ \A r \in RunIds :
       (runs[r].deduct # 0 \/ runs[r].appended # 0)
         => runs[r].upstream = "audio" /\ runs[r].outcome = "completed"
  /\ \A r \in RunIds :
       runs[r].upstream \in {"none", "pending"}
         => /\ runs[r].deduct = 0
            /\ runs[r].appended = 0
            /\ runs[r].pc # "idle" => FetchesOf(r) = {} /\ ItemsOf(r) = {}

\* Witness of C21: the speech-model call of a run has returned audio and
\* the run has added its item and sent its deduct, which is still on its way.
C21_Witness ==
  \E r \in RunIds :
    /\ runs[r].upstream = "audio"
    /\ runs[r].outcome = "completed"
    /\ runs[r].appended = 1
    /\ runs[r].deduct = 1
    /\ \E m \in FetchesOf(r) : m.phase = "req"
    /\ ItemsOf(r) # {}

\* C22: the token the controller holds belongs to a run that is awaiting
\* its speech-model call, and it is the token of the run started last for as
\* long as that run awaits its speech-model call, whatever earlier runs do
\* meanwhile (complete, fail, get cancelled): a cancel then pre-empts that run.
C22_TokenOfLatestRun ==
  /\ \A r \in RunIds : abortControllerRef = r => runs[r].pc = "synthesizing"
  /\ (started # 0 /\ runs[started].pc = "synthesizing")
       => /\ abortControllerRef = started
          /\ ENABLED (HandleCancel /\ runs'[started].outcome = "cancelled")

\* C23 (checked under SpecLedger): a deduct request that carries an integer
\* amount, zero and negative ones included, leaves every numeric balance
\* less than or equal to what it was.
C23_DeductNeverIncreases ==
  [][(req'.op = "deduct" /\ req'.amount.t = "num")
       => \A e \in DOMAIN usersDb :
            usersDb[e].credits.t = "num"
              => /\ usersDb'[e].credits.t = "num"
                 /\ usersDb'[e].credits.v <= usersDb[e].credits.v]_vars

\* The account view v of the client is a well-formed account: an identity,
\* a balance that is a number or unlimited, and no error.
WellFormedView(v) ==
  /\ v.data.email # ""
  /\ v.data.error = ""
  /\ v.data.credits.t \in {"num", "inf"}

\* C24: the account view of the client is empty or a well-formed account,
\* and a run whose speech-model call has been issued was started on a
\* well-formed view whose balance is unlimited or at least the length of the
\* text it synthesizes: the credit check is never bypassed.
C24_CreditCheckNeverBypassed ==
  /\ user.present => WellFormedView(user)
  /\ \A r \in RunIds :
       runs[r].upstream # "none"
         => /\ runs[r].user.present
            /\ WellFormedView(runs[r].user)
            /\ runs[r].user.data.credits.t = "num"
                 => runs[r].user.data.credits.v >= TextLen(runs[r].text)

\* C25 (checked under SpecLive): a run that is in flight eventually reaches
\* a terminal outcome when each of its model calls responds or the user
\* clicks cancel; a finished run has no token registered; and whenever no
\* run is in flight (after every terminal outcome, early returns included)
\* the generating flag is false, the loading status is cleared and no token
\* is held.
C25_RunsTerminateClean ==
  /\ \A r \in RunIds : InFlight(r) ~> (runs[r].pc = "done")
  /\ [](\A r \in RunIds : runs[r].pc = "done" => abortControllerRef # r)
  /\ []((\A r \in RunIds : ~InFlight(r))
          => isGenerating = FALSE /\ loadingStatus = "" /\ abortControllerRef = 0)

(***************************************************************************)
(* Claims on the encoder (checked under SpecWav).                          *)
(***************************************************************************)
\* The 16-bit and 32-bit little-endian fields of a header, read back.
Field16(h, offset) == h[offset + 1] + 256 * h[offset + 2]
Field32(h, offset) == Field16(h, offset) + 65536 * Field16(h, offset + 2)

\* C17: for a payload of N bytes at sample rate R < 2^31 the container is
\* 44 + N bytes long with the N payload bytes behind a 44-byte header whose
\* payload-length field (offset 40) is N, RIFF size field (offset 4) is
\* 36 + N, channel count (offset 22) is 1, bit depth (offset 34) is 16 and
\* byte-rate field (offset 28) is 2 * R (compared as its half, so that no
\* value passes 2^31); also for N = 0.
C17_WavContainer ==
  wav # NoWav =>
    LET N == wav.len
        R == wav.sampleRate
        h == wav.header
    IN  /\ wav.byteLength = 44 + N
        /\ wav.pcmData = N
        /\ Len(h) = 44
        /\ \A i \in 1..44 : h[i] \in 0..255
        /\ Field32(h, 40) = N
        /\ Field32(h, 4) = 36 + N
        /\ Field16(h, 22) = 1
        /\ Field16(h, 34) = 16
        /\ Field32(h, 24) = R
        /\ Field16(h, 28) % 2 = 0
        /\ Field16(h, 30) * 32768 + Field16(h, 28) \div 2 = R

\* Witness of C17: the empty payload has been encoded at the highest rate.
C17_Witness ==
  /\ wav # NoWav
  /\ wav.len = 0
  /\ wav.byteLength = 44
  /\ wav.sampleRate = 2147483647

=============================================================================
